---- MODULE Spec2Model ----
(***************************************************************************)
(* maxAndPair of 02_bit_manipulation/04_max_AND.cpp: the greedy, bit by    *)
(* bit construction of the maximum AND of two elements of a vector<int>,   *)
(* and the driver main() that calls it on {4, 8, 12, 16}; and josephus of  *)
(* 03_recursion/L02_Josephus.cpp, the recursive survivor index, with the   *)
(* main() that reads n and k.  The two are separate programs: Spec runs    *)
(* the first, JosephusSpec the second.                                     *)
(*                                                                         *)
(* An int is a 32-bit two's complement value, kept here as the integer it  *)
(* denotes, IntMin..IntMax.  The bitwise operators are computed on the     *)
(* two's complement digits of their operands.                              *)
(***************************************************************************)
EXTENDS Integers, Sequences, FiniteSets

\* ------------------------------------------------------------------ bounds
\* Longest input vector drawn besides the driver's own.
MaxLen == 3
\* The elements of an input vector are drawn from 0 .. MaxVal, INT_MAX and -1.
MaxVal == 3
\* josephus is called with n in -1 .. MaxN and k in -1 .. MaxK or INT_MAX.
MaxN == 6
MaxK == 4
\* The nesting of calls the model follows a recursion that never ends to.
MaxDepth == 8

\* ------------------------------------------------------- program constants
\* The first bit examined: for (int bit = 31; ...
TopBit == 31
\* The number of candidates that makes a bit affordable: if (count >= 2)
MinCount == 2

\* ------------------------------------------------------------ int, 32 bits
IntMax == 2147483647
IntMin == -IntMax - 1

\* x & y on two's complement ints.  -1 is all ones, 0 is all zeros; the other
\* values are decided digit by digit, lowest digit first (\div rounds down,
\* so a negative operand ends in -1 and a non-negative one in 0).
RECURSIVE BitAnd(_, _)
BitAnd(x, y) ==
    IF x = 0 \/ y = 0 THEN 0
    ELSE IF x = -1 THEN y
    ELSE IF y = -1 THEN x
    ELSE (x % 2) * (y % 2) + 2 * BitAnd(x \div 2, y \div 2)

\* x | y on two's complement ints.
RECURSIVE BitOr(_, _)
BitOr(x, y) ==
    IF x = 0 THEN y
    ELSE IF y = 0 THEN x
    ELSE IF x = -1 \/ y = -1 THEN -1
    ELSE (IF x % 2 = 1 \/ y % 2 = 1 THEN 1 ELSE 0) + 2 * BitOr(x \div 2, y \div 2)

\* 1 << bit in a 32-bit int, for bit in 0..31.  1 << 31 is the int whose only
\* set bit is the sign bit, INT_MIN (the value C++20 defines and the value
\* every two's complement build produces).
ShiftOne(bit) == IF bit = TopBit THEN IntMin ELSE 2 ^ bit

\* a + b leaves the range of int.
AddOverflows(a, b) ==
    \/ b > 0 /\ a > IntMax - b
    \/ b < 0 /\ a < IntMin - b

\* a + b reduced modulo 2^32 into the range of int, for a sum that left it.
AddWrapped(a, b) ==
    IF b > 0 THEN IntMin + (a - (IntMax - b) - 1)
             ELSE IntMax - ((IntMin - b) - a - 1)

\* a % m of C++ for m > 0: the quotient truncates toward zero, so the
\* remainder has the sign of a.
CRem(a, m) ==
    IF a >= 0 THEN a % m
    ELSE IF a % m = 0 THEN 0 ELSE (a % m) - m

\* ------------------------------------------------------------- maxAndPair
\* int tempResult = result | (1 << bit);
TempResultMissingOr(res, b) == ShiftOne(b)
TempResult(res, b) == BitOr(res, ShiftOne(b))

\* if ((num & tempResult) == tempResult)
MatchesAnyBit(num, temp) == BitAnd(num, temp) # 0
Matches(num, temp) == BitAnd(num, temp) = temp

\* if (count >= 2)
AffordableOne(c) == c >= 1
AffordableAlways(c) == c >= 0
Affordable(c) == c >= MinCount

\* The inner loop as a whole: the number of elements that match temp.
CountMatching(a, temp) == Cardinality({i \in DOMAIN a : Matches(a[i], temp)})

\* The outer loop from bit b down to 0, started with the accumulator res.
RECURSIVE BitLoop(_, _, _)
BitLoop(a, b, res) ==
    IF b < 0 THEN res
    ELSE LET temp == TempResult(res, b)
         IN  IF Affordable(CountMatching(a, temp))
             THEN BitLoop(a, b - 1, temp)
             ELSE BitLoop(a, b - 1, res)

\* The value maxAndPair returns for the vector a.
maxAndPair(a) == BitLoop(a, TopBit, 0)

\* ------------------------------------------------------------------ inputs
\* vector<int> arr = {4, 8, 12, 16};
DemoInput == <<4, 8, 12, 16>>

Values == (0 .. MaxVal) \cup {IntMax, -1}

Inputs == UNION {[1 .. k -> Values] : k \in 0 .. MaxLen} \cup {DemoInput}

\* -------------------------------------------------------------------- state
VARIABLES
    arr,         \* the vector the caller passes by reference
    pc,          \* "call", "outer", "inner", "done"; "idle" when not run
    n,           \* int n = arr.size()
    bit,         \* the outer loop's variable
    result,      \* the accumulator
    tempResult,  \* the candidate of the current bit
    count,       \* the matches counted so far in the current pass
    idx,         \* the position the range-for is at, 1-based
    outcome,     \* "none" until the call ends; "value" after return
    ret,         \* the value returned
    jn,          \* josephus: the n main() read
    jk,          \* josephus: the k main() read
    stack,       \* josephus: the n of every active call, innermost last
    jpc,         \* josephus: "idle", "start", "test", "ret", "done", "trap"
    jret,        \* josephus: the value the call that ended last returned
    calls        \* josephus: the recursive calls made so far

mvars == <<arr, pc, n, bit, result, tempResult, count, idx, outcome, ret>>
jvars == <<jn, jk, stack, jpc, jret, calls>>
vars == <<mvars, jvars>>

\* The josephus program is not running.
JosephusIdle ==
    /\ jn = 0
    /\ jk = 0
    /\ stack = << >>
    /\ jpc = "idle"
    /\ jret = 0
    /\ calls = 0

\* The locals do not exist before the call; count is declared without an
\* initializer and is assigned (count = 0) before every read, so its first
\* value is never observed.
Init ==
    /\ JosephusIdle
    /\ arr \in Inputs
    /\ pc = "call"
    /\ n = 0
    /\ bit = TopBit
    /\ result = 0
    /\ tempResult = 0
    /\ count = 0
    /\ idx = 1
    /\ outcome = "none"
    /\ ret = 0

\* Entry: int result = 0; int count; int n = arr.size(); bit = 31.
Call ==
    /\ pc = "call"
    /\ result' = 0
    /\ n' = Len(arr)
    /\ bit' = TopBit
    /\ pc' = "outer"
    /\ UNCHANGED <<arr, tempResult, count, idx, outcome, ret>>
    /\ UNCHANGED jvars

\* bit >= 0: tempResult = result | (1 << bit); count = 0; the range-for begins.
BeginBit ==
    /\ pc = "outer"
    /\ bit >= 0
    /\ tempResult' = TempResult(result, bit)
    /\ count' = 0
    /\ idx' = 1
    /\ pc' = "inner"
    /\ UNCHANGED <<arr, n, bit, result, outcome, ret>>
    /\ UNCHANGED jvars

\* An element that has every bit of tempResult: count++.
ScanMatchWrites ==
    /\ pc = "inner"
    /\ idx <= Len(arr)
    /\ Matches(arr[idx], tempResult)
    /\ count' = count + 1
    /\ idx' = idx + 1
    /\ arr' = [arr EXCEPT ![idx] = BitAnd(arr[idx], tempResult)]
    /\ UNCHANGED <<pc, n, bit, result, tempResult, outcome, ret>>
    /\ UNCHANGED jvars
ScanMatch ==
    /\ pc = "inner"
    /\ idx <= Len(arr)
    /\ Matches(arr[idx], tempResult)
    /\ count' = count + 1
    /\ idx' = idx + 1
    /\ UNCHANGED <<arr, pc, n, bit, result, tempResult, outcome, ret>>
    /\ UNCHANGED jvars

\* An element that lacks a bit of tempResult: the loop moves on.
ScanNoMatchBreaks ==
    /\ pc = "inner"
    /\ idx <= Len(arr)
    /\ ~Matches(arr[idx], tempResult)
    /\ idx' = Len(arr) + 1
    /\ UNCHANGED <<arr, pc, n, bit, result, tempResult, count, outcome, ret>>
    /\ UNCHANGED jvars
ScanNoMatch ==
    /\ pc = "inner"
    /\ idx <= Len(arr)
    /\ ~Matches(arr[idx], tempResult)
    /\ idx' = idx + 1
    /\ UNCHANGED <<arr, pc, n, bit, result, tempResult, count, outcome, ret>>
    /\ UNCHANGED jvars

\* The range-for is over and count >= 2: result = tempResult; --bit.
CommitBit ==
    /\ pc = "inner"
    /\ idx > Len(arr)
    /\ Affordable(count)
    /\ result' = tempResult
    /\ bit' = bit - 1
    /\ pc' = "outer"
    /\ UNCHANGED <<arr, n, tempResult, count, idx, outcome, ret>>
    /\ UNCHANGED jvars

\* The range-for is over and count < 2: result stays; --bit.
SkipBit ==
    /\ pc = "inner"
    /\ idx > Len(arr)
    /\ ~Affordable(count)
    /\ bit' = bit - 1
    /\ pc' = "outer"
    /\ UNCHANGED <<arr, n, result, tempResult, count, idx, outcome, ret>>
    /\ UNCHANGED jvars

\* bit < 0: return result.
Return ==
    /\ pc = "outer"
    /\ bit < 0
    /\ ret' = result
    /\ outcome' = "value"
    /\ pc' = "done"
    /\ UNCHANGED <<arr, n, bit, result, tempResult, count, idx>>
    /\ UNCHANGED jvars

Next ==
    \/ Call
    \/ BeginBit
    \/ ScanMatch
    \/ ScanNoMatch
    \/ CommitBit
    \/ SkipBit
    \/ Return

Spec == Init /\ [][Next]_vars

\* ---------------------------------------------------------------- josephus
\* The maxAndPair program is not running.
MaxAndIdle ==
    /\ arr = << >>
    /\ pc = "idle"
    /\ n = 0
    /\ bit = TopBit
    /\ result = 0
    /\ tempResult = 0
    /\ count = 0
    /\ idx = 1
    /\ outcome = "none"
    /\ ret = 0

\* cin >> n; cin >> k;
JosephusInit ==
    /\ MaxAndIdle
    /\ jn \in -1 .. MaxN
    /\ jk \in (-1 .. MaxK) \cup {IntMax}
    /\ stack = << >>
    /\ jpc = "start"
    /\ jret = 0
    /\ calls = 0

\* int survivor = josephus(n, k);
JEnter ==
    /\ jpc = "start"
    /\ stack' = <<jn>>
    /\ jpc' = "test"
    /\ UNCHANGED <<jn, jk, jret, calls>>
    /\ UNCHANGED mvars

\* n == 1: return 0.
JBase ==
    /\ jpc = "test"
    /\ stack[Len(stack)] = 1
    /\ jret' = 0
    /\ stack' = SubSeq(stack, 1, Len(stack) - 1)
    /\ jpc' = "ret"
    /\ UNCHANGED <<jn, jk, calls>>
    /\ UNCHANGED mvars

\* n != 1: the call josephus(n - 1, k).
JRecurse ==
    /\ jpc = "test"
    /\ stack[Len(stack)] # 1
    /\ Len(stack) < MaxDepth
    /\ stack' = Append(stack, stack[Len(stack)] - 1)
    /\ calls' = calls + 1
    /\ UNCHANGED <<jn, jk, jpc, jret>>
    /\ UNCHANGED mvars

\* The inner call is back and its value + k is an int: return the sum % n.
JCombine ==
    /\ jpc = "ret"
    /\ stack # << >>
    /\ ~AddOverflows(jret, jk)
    /\ jret' = CRem(jret + jk, stack[Len(stack)])
    /\ stack' = SubSeq(stack, 1, Len(stack) - 1)
    /\ UNCHANGED <<jn, jk, jpc, calls>>
    /\ UNCHANGED mvars

\* The inner call is back and its value + k overflows int, which is
\* undefined: a build whose addition wraps returns the wrapped sum % n.
JCombineWraps ==
    /\ jpc = "ret"
    /\ stack # << >>
    /\ AddOverflows(jret, jk)
    /\ jret' = CRem(AddWrapped(jret, jk), stack[Len(stack)])
    /\ stack' = SubSeq(stack, 1, Len(stack) - 1)
    /\ UNCHANGED <<jn, jk, jpc, calls>>
    /\ UNCHANGED mvars

\* The same overflow in a build that traps on it: the program is aborted.
JCombineTraps ==
    /\ jpc = "ret"
    /\ stack # << >>
    /\ AddOverflows(jret, jk)
    /\ jpc' = "trap"
    /\ UNCHANGED <<jn, jk, stack, jret, calls>>
    /\ UNCHANGED mvars

\* The outermost call is back in main: survivor = its value.
JReturn ==
    /\ jpc = "ret"
    /\ stack = << >>
    /\ jpc' = "done"
    /\ UNCHANGED <<jn, jk, stack, jret, calls>>
    /\ UNCHANGED mvars

JosephusNext ==
    \/ JEnter
    \/ JBase
    \/ JRecurse
    \/ JCombine
    \/ JCombineWraps
    \/ JCombineTraps
    \/ JReturn

JosephusSpec == JosephusInit /\ [][JosephusNext]_vars

\* ------------------------------------------------------- property helpers
NonNegative(a) == \A i \in DOMAIN a : a[i] >= 0

HasBit(x, b) == BitAnd(x, ShiftOne(b)) # 0

\* The exhaustive pairwise scan: values[i] & values[j] for every i # j.
PairAnds(a) ==
    {BitAnd(a[q[1]], a[q[2]]) : q \in {r \in (DOMAIN a) \X (DOMAIN a) : r[1] # r[2]}}

SetMax(S) == CHOOSE m \in S : \A x \in S : x <= m

\* Every reordering of the sequence a.
Reorderings(a) ==
    LET D == DOMAIN a
        Bij == {f \in [D -> D] : \A i \in D, j \in D : i # j => f[i] # f[j]}
    IN  {[i \in D |-> a[f[i]]] : f \in Bij}

\* What one step may do to the accumulator: leave it, or add to it the one
\* bit under examination, which it did not have, without lowering it.
AccumulatorStep ==
    /\ result' >= result
    /\ \/ result' = result
       \/ /\ ~HasBit(result, bit)
          /\ result' = BitOr(result, ShiftOne(bit))

\* ------------------------------------------------------------------ claims

\* C1: for every vector of at least two non-negative ints, maxAndPair returns
\* the maximum of values[i] & values[j] over all pairs of distinct positions,
\* the value an exhaustive pairwise scan finds.
C1_EqualsBruteForce ==
    (pc = "done" /\ Len(arr) >= 2 /\ NonNegative(arr))
        => ret = SetMax(PairAnds(arr))

\* A call on three different non-negative values whose best pair is not zero.
C1_Witness ==
    /\ pc = "done"
    /\ Len(arr) = 3
    /\ NonNegative(arr)
    /\ arr[1] # arr[2] /\ arr[2] # arr[3] /\ arr[1] # arr[3]
    /\ ret # 0
    /\ ret # BitAnd(arr[1], arr[2])

\* C2: a call on a vector of zero or one element ends in the outcome
\* InsufficientElements and never returns a number.
C2_InsufficientElements ==
    (pc = "done" /\ Len(arr) < 2) => outcome = "InsufficientElements"

\* C3: for the driver's input {4, 8, 12, 16} maxAndPair returns 8.
C3_DemoReturnsEight ==
    (pc = "done" /\ arr = DemoInput) => ret = 8

\* The driver's call has returned.
C3_Witness ==
    /\ pc = "done"
    /\ arr = DemoInput
    /\ outcome = "value"

\* C4: the value returned for a vector is the value maxAndPair has for
\* every reordering of that vector.
C4_PermutationInvariant ==
    pc = "done" => \A p \in Reorderings(arr) : maxAndPair(p) = ret

\* A call on a vector that reorders to a different one, with a result
\* that is not zero.
C4_Witness ==
    /\ pc = "done"
    /\ Len(arr) >= 3
    /\ arr[1] # arr[Len(arr)]
    /\ ret # 0

\* C5: maxAndPair([x, x]) is x for every non-negative x; and a bit that
\* exactly one position of the vector has set is never set in the result.
C5_DuplicateSensitive ==
    pc = "done" =>
        /\ (Len(arr) = 2 /\ arr[1] = arr[2] /\ arr[1] >= 0) => ret = arr[1]
        /\ \A b \in 0 .. TopBit :
              Cardinality({i \in DOMAIN arr : HasBit(arr[i], b)}) = 1
                  => ~HasBit(ret, b)

\* A call on [x, x] with x > 0 has returned.
C5_Witness ==
    /\ pc = "done"
    /\ Len(arr) = 2
    /\ arr[1] = arr[2]
    /\ arr[1] > 0
    /\ ret = arr[1]

\* C6: on non-negative input the accumulator and the value returned are
\* never negative and never have bit 31 set; they lie in 0 .. IntMax, which
\* is within [0, 2^32 - 1].
C6_ResultInRange ==
    NonNegative(arr) =>
        /\ result \in 0 .. IntMax
        /\ ret \in 0 .. IntMax
        /\ ~HasBit(result, TopBit)
        /\ ~HasBit(ret, TopBit)

\* A call that examined bit 31 and every bit below it, and committed all
\* of the lower 31.
C6_Witness ==
    /\ pc = "done"
    /\ NonNegative(arr)
    /\ ret = IntMax

\* C7: no step of maxAndPair changes the vector: its length and the value
\* at every position stay what they were at the call.
C7_InputUnchanged == [][arr' = arr]_vars

\* A call that counted matches in a vector of at least two elements and
\* has returned.
C7_Witness ==
    /\ pc = "done"
    /\ Len(arr) >= 2
    /\ count >= MinCount

C9_CumulativeTest ==
    /\ [][bit' = bit - 1 =>
            LET mask == BitOr(result, ShiftOne(bit))
                holders == {i \in DOMAIN arr : BitAnd(arr[i], mask) = mask}
            IN  /\ (result' = mask) <=> (Cardinality(holders) >= 2)
                /\ (result' # mask) => (result' = result)]_vars
    /\ [](result # 0 =>
            Cardinality({i \in DOMAIN arr : BitAnd(arr[i], result) = result}) >= 2)

\* Two bits are committed, and one of them is held by more positions than
\* hold the whole of result.
C9_Witness ==
    /\ pc = "outer"
    /\ result # 0
    /\ \E b \in 0 .. TopBit :
          /\ HasBit(result, b)
          /\ Cardinality({i \in DOMAIN arr : HasBit(arr[i], b)})
                > Cardinality({i \in DOMAIN arr : BitAnd(arr[i], result) = result})

\* The circular elimination: people stand in a circle, the count starts at
\* position from, the k-th person counted leaves and the count starts again
\* at the next one, until one person is left.
RECURSIVE LastStanding(_, _, _)
LastStanding(circle, from, k) ==
    IF Len(circle) = 1 THEN circle[1]
    ELSE LET len == Len(circle)
             out == ((((from - 1) % len) + ((k - 1) % len)) % len) + 1
             rest == SubSeq(circle, 1, out - 1) \o SubSeq(circle, out + 1, len)
         IN  LastStanding(rest, IF out > Len(rest) THEN 1 ELSE out, k)

Survivor(m, k) == LastStanding([i \in 1 .. m |-> i - 1], 1, k)

\* What C10 says of a call with n >= 1 and k >= 1.
JosephusContract ==
    /\ jpc # "trap"
    /\ calls <= jn - 1
    /\ jpc = "done" =>
          /\ calls = jn - 1
          /\ jret \in 0 .. jn - 1
          /\ jret = Survivor(jn, jk)

\* What C10 says of a call with n <= 0.
JosephusNoBase ==
    /\ jpc \notin {"ret", "done"}
    /\ \A i \in DOMAIN stack : stack[i] # 1

\* C10: for all n >= 1 and k >= 1, josephus(n, k) ends after n - 1 recursive
\* calls and returns the index in 0 .. n-1 of the survivor of the circular
\* elimination of every k-th person; for n <= 0 the recursion never reaches
\* its base case n == 1.
C10_Josephus ==
    /\ (jn >= 1 /\ jk >= 1) => JosephusContract
    /\ (jn <= 0 /\ jpc # "idle") => JosephusNoBase

\* The part of C10 that the code keeps: every call whose additions stay
\* within int.
C10_JosephusWithoutOverflow ==
    /\ (jn >= 1 /\ jk >= 1 /\ jk <= IntMax - jn) => JosephusContract
    /\ (jn <= 0 /\ jpc # "idle") => JosephusNoBase

====
